---- MODULE Spec2Model ----
(***************************************************************************)
(* Model of src/ingest.py: the CDC BRFSS extract - validate - load         *)
(* pipeline (fetch_all_brfss_data, validate_data, load_to_bigquery, main). *)
(*                                                                         *)
(* Three entry points are modelled, selected by the variable caller:       *)
(*   "main"      the script's main(): extract, validate, load, exit code   *)
(*   "fetch_all" a direct call fetch_all_brfss_data(max_records = m)       *)
(*   "validate"  a direct call validate_data(df)                           *)
(*                                                                         *)
(* The code's page size (limit = 10000) and MIN_ROW_COUNT = 100 are scaled *)
(* down to the bounds ScaledLimit and ScaledMinRowCount so that datasets   *)
(* around both thresholds are enumerable; every comparison against them is *)
(* kept exactly as in the code.                                            *)
(***************************************************************************)
EXTENDS Integers, Sequences, FiniteSets, TLC

(***************************************************************************)
(* Bounds of the model                                                     *)
(***************************************************************************)
\* stands for limit = 10000 (src/ingest.py:97)
ScaledLimit == 3
\* stands for MIN_ROW_COUNT = 100 (src/ingest.py:39)
ScaledMinRowCount == 2
\* number of page fetches after which the model stops following a run
MaxFetches == 3
\* number of records the remote source holds at most
MaxSourceRecords == 8
\* largest integer passed as max_records in a direct call
MaxRecordsArg == 5
\* most rows of a dataset handed directly to validate_data
MaxRows == 4

(***************************************************************************)
(* Configuration (src/ingest.py:35-40, 97)                                 *)
(***************************************************************************)
EXPECTED_COLUMNS ==
    {"year", "locationabbr", "locationdesc", "class", "topic",
     "question", "data_value", "sample_size"}

MIN_ROW_COUNT == ScaledMinRowCount

MAX_NULL_PERCENTAGE == 50

limit == ScaledLimit

(***************************************************************************)
(* Values                                                                  *)
(***************************************************************************)
\* Python None for an optional integer: <<>> is None, <<n>> is the integer n
None == <<>>

Some(n) == <<n>>

\* a null cell: JSON null (None) or the NaN pandas fills in for a missing key
NULL == "null"

\* API records (dicts): all expected fields; data_value null; two expected
\* fields absent, one null and one extra field; the empty dict
rFull ==
    [c \in EXPECTED_COLUMNS |-> "v"]

rNull ==
    [c \in EXPECTED_COLUMNS |-> IF c = "data_value" THEN NULL ELSE "v"]

rPart ==
    [c \in (EXPECTED_COLUMNS \ {"class", "sample_size"}) \cup {"break_out"} |->
        IF c = "data_value" THEN NULL ELSE "v"]

rEmpty ==
    [c \in {} |-> "v"]

\* records the remote source serves
SourceRecords == {rFull, rPart}

\* records of the datasets handed directly to validate_data
DatasetRecords == {rFull, rNull, rPart, rEmpty}

SeqsUpTo(S, n) == UNION {[1..k -> S] : k \in 0..n}

\* a response that ignores $limit and carries one record too many
OverlongPage == [i \in 1..(limit + 1) |-> rFull]

\* the bodies a successful GET can carry
Pages == SeqsUpTo(SourceRecords, limit) \cup {OverlongPage}

RECURSIVE Flatten(_)
Flatten(pages) ==
    IF pages = <<>> THEN <<>> ELSE Head(pages) \o Flatten(Tail(pages))

RECURSIVE SumLen(_)
SumLen(pages) ==
    IF pages = <<>> THEN 0 ELSE Len(Head(pages)) + SumLen(Tail(pages))

(***************************************************************************)
(* fetch_all_brfss_data: one iteration of the while loop (lines 101-118)   *)
(***************************************************************************)
\* Python truthiness of max_records: None and 0 are both false
Truthy(m) == m # None /\ m[1] # 0

\* LoopBody with the short-page test moved before all_data.extend(data)
LoopBodyBreaksBeforeExtend(acc, off, data, m) ==
    IF data = <<>> \/ Len(data) < limit
    THEN [all_data |-> acc, offset |-> off, done |-> TRUE]
    ELSE LET ext == acc \o data IN
         IF Truthy(m) /\ Len(ext) >= m[1]
         THEN [all_data |-> SubSeq(ext, 1, m[1]), offset |-> off, done |-> TRUE]
         ELSE [all_data |-> ext, offset |-> off + limit, done |-> FALSE]

\* LoopBody with the short-page test before the record-cap test
LoopBodyShortBeforeCap(acc, off, data, m) ==
    IF data = <<>>
    THEN [all_data |-> acc, offset |-> off, done |-> TRUE]
    ELSE LET ext == acc \o data IN
         IF Len(data) < limit
         THEN [all_data |-> ext, offset |-> off, done |-> TRUE]
         ELSE IF Truthy(m) /\ Len(ext) >= m[1]
              THEN [all_data |-> SubSeq(ext, 1, m[1]), offset |-> off, done |-> TRUE]
              ELSE [all_data |-> ext, offset |-> off + limit, done |-> FALSE]

\* LoopBody without the record-cap test
LoopBodyNoCap(acc, off, data, m) ==
    IF data = <<>>
    THEN [all_data |-> acc, offset |-> off, done |-> TRUE]
    ELSE LET ext == acc \o data IN
         IF Len(data) < limit
         THEN [all_data |-> ext, offset |-> off, done |-> TRUE]
         ELSE [all_data |-> ext, offset |-> off + limit, done |-> FALSE]

\* LoopBody that never advances the offset
LoopBodyOffsetStuck(acc, off, data, m) ==
    IF data = <<>>
    THEN [all_data |-> acc, offset |-> off, done |-> TRUE]
    ELSE LET ext == acc \o data IN
         IF Truthy(m) /\ Len(ext) >= m[1]
         THEN [all_data |-> SubSeq(ext, 1, m[1]), offset |-> off, done |-> TRUE]
         ELSE IF Len(data) < limit
              THEN [all_data |-> ext, offset |-> off, done |-> TRUE]
              ELSE [all_data |-> ext, offset |-> off, done |-> FALSE]

\* the loop body after a successful fetch returned data; done = the loop broke
LoopBody(acc, off, data, m) ==
    IF data = <<>>
    THEN [all_data |-> acc, offset |-> off, done |-> TRUE]
    ELSE LET ext == acc \o data IN
         IF Truthy(m) /\ Len(ext) >= m[1]
         THEN [all_data |-> SubSeq(ext, 1, m[1]), offset |-> off, done |-> TRUE]
         ELSE IF Len(data) < limit
              THEN [all_data |-> ext, offset |-> off, done |-> TRUE]
              ELSE [all_data |-> ext, offset |-> off + limit, done |-> FALSE]

(***************************************************************************)
(* pd.DataFrame(data) (line 347): columns are the union of the records'    *)
(* keys, one row per record in arrival order, absent keys become null      *)
(***************************************************************************)
DataFrame(data) ==
    LET cols == UNION {DOMAIN data[i] : i \in 1..Len(data)} IN
    [columns |-> cols,
     rows |-> [i \in 1..Len(data) |->
                  [c \in cols |-> IF c \in DOMAIN data[i] THEN data[i][c] ELSE NULL]]]

\* the value of df before main builds it
NoDataFrame == DataFrame(<<>>)

\* a DataFrame with the expected columns and no rows
HeaderOnlyFrame == [columns |-> EXPECTED_COLUMNS, rows |-> <<>>]

\* len(df)
RowCount(df) == Len(df.rows)

\* df[column].isna().sum()
NullCount(df, c) == Cardinality({i \in 1..Len(df.rows) : df.rows[i][c] = NULL})

(***************************************************************************)
(* Validation (lines 123-249).  A check yields the ValidationError it      *)
(* raises (<<>> when it returns normally) and the warnings it logs.        *)
(* Messages are records: kind, the numbers and the column set they print.  *)
(***************************************************************************)
Message(kind, rows, minimum, cols) ==
    [kind |-> kind, rows |-> rows, minimum |-> minimum, columns |-> cols]

RowCountMessage(n) == Message("row_count_failed", n, MIN_ROW_COUNT, {})

NoColumnsMessage == Message("no_columns", 0, 0, {})

MissingColumnsMessage(cols) == Message("missing_columns", 0, 0, cols)

HighNullsMessage(cols) == Message("high_nulls", 0, 0, cols)

\* validate_row_count (lines 133-142)
validate_row_count(df) ==
    [raised |-> IF RowCount(df) < MIN_ROW_COUNT
                THEN <<RowCountMessage(RowCount(df))>> ELSE <<>>,
     logged |-> <<>>]

\* expected_columns - actual_columns (line 162)
missing_columns(df) == EXPECTED_COLUMNS \ df.columns

\* validate_schema raising on missing expected columns instead of warning
validate_schema_strict(df) ==
    [raised |-> IF missing_columns(df) # {}
                THEN <<MissingColumnsMessage(missing_columns(df))>>
                ELSE IF Cardinality(df.columns) = 0 THEN <<NoColumnsMessage>> ELSE <<>>,
     logged |-> <<>>]

\* validate_schema without the test for zero columns
validate_schema_never_raises(df) ==
    [raised |-> <<>>,
     logged |-> IF missing_columns(df) # {}
                THEN <<MissingColumnsMessage(missing_columns(df))>> ELSE <<>>]

\* validate_schema (lines 155-172)
validate_schema(df) ==
    [raised |-> IF Cardinality(df.columns) = 0 THEN <<NoColumnsMessage>> ELSE <<>>,
     logged |-> IF missing_columns(df) # {}
                THEN <<MissingColumnsMessage(missing_columns(df))>> ELSE <<>>]

\* null_percentage > MAX_NULL_PERCENTAGE (lines 192, 200), with
\* null_percentage = (null_count / len(df)) * 100 compared without rounding
ExceedsNullLimit(df, c) ==
    NullCount(df, c) * 100 > MAX_NULL_PERCENTAGE * RowCount(df)

\* the columns appended to critical_failures (lines 190-203)
critical_failures(df) == {c \in df.columns : ExceedsNullLimit(df, c)}

\* df.columns as a list: the order in which the API lists the fields
COLUMN_ORDER ==
    <<"year", "locationabbr", "locationdesc", "class", "topic", "question",
      "data_value", "sample_size", "break_out">>

InFrame(df, c) == c \in df.columns

ColumnList(df) == SelectSeq(COLUMN_ORDER, LAMBDA c : InFrame(df, c))

\* NaN, what numpy yields for 0 / 0, in the unit of RoundedNullPercentage
NaN == 0 - 1

\* round(null_percentage, 2) (line 197) in hundredths of a percent: the
\* exact quotient null_count * 100 / len(df) rounded half to even
RoundedNullPercentage(df, c) ==
    IF RowCount(df) = 0 THEN NaN
    ELSE LET num == NullCount(df, c) * 10000
             q == num \div RowCount(df)
             r == num % RowCount(df)
         IN  IF 2 * r < RowCount(df) THEN q
             ELSE IF 2 * r > RowCount(df) THEN q + 1
             ELSE IF q % 2 = 0 THEN q ELSE q + 1

\* the rows appended to null_report, in column order (lines 190-198)
null_report_rows(df) ==
    [i \in 1..Len(ColumnList(df)) |->
        [column |-> ColumnList(df)[i],
         null_count |-> NullCount(df, ColumnList(df)[i]),
         null_percentage |-> RoundedNullPercentage(df, ColumnList(df)[i])]]

\* a row put before the first row of sorted whose percentage is not larger
InsertDescending(row, sorted) ==
    LET before == {j \in DOMAIN sorted :
                      \A k \in 1..j : sorted[k].null_percentage > row.null_percentage}
        n == Cardinality(before)
    IN  SubSeq(sorted, 1, n) \o <<row>> \o SubSeq(sorted, n + 1, Len(sorted))

\* sort_values('null_percentage', ascending=False) (line 206); rows of equal
\* percentage keep their column order
RECURSIVE SortDescending(_)
SortDescending(rows) ==
    IF rows = <<>> THEN <<>>
    ELSE InsertDescending(Head(rows), SortDescending(Tail(rows)))

\* null_report without the sort
null_report_unsorted(df) == null_report_rows(df)

\* null_df, the report that is logged (lines 206-207)
null_report(df) == SortDescending(null_report_rows(df))

\* validate_null_checks (lines 187-215): it never raises
validate_null_checks(df) ==
    [raised |-> <<>>,
     logged |-> IF critical_failures(df) # {}
                THEN <<HighNullsMessage(critical_failures(df))>> ELSE <<>>,
     null_report |-> null_report(df)]

\* validate_data with the ValidationError of the row-count check recorded
\* and the remaining checks still run
validate_data_collects(df) ==
    LET rc == validate_row_count(df)
        sc == validate_schema(df)
        nc == validate_null_checks(df)
    IN  IF sc.raised # <<>>
        THEN [passed |-> FALSE, warnings |-> rc.raised \o sc.raised,
              logged |-> rc.logged \o sc.logged, ran |-> <<"row_count", "schema">>,
              null_report |-> <<>>]
        ELSE [passed |-> rc.raised = <<>>, warnings |-> rc.raised,
              logged |-> rc.logged \o sc.logged \o nc.logged,
              ran |-> <<"row_count", "schema", "null_checks">>,
              null_report |-> nc.null_report]

\* validate_data (lines 232-249): the checks in order, the first
\* ValidationError ends the try block; the list returned on success is the
\* local warnings, which nothing appends to
validate_data(df) ==
    LET rc == validate_row_count(df)
        sc == validate_schema(df)
        nc == validate_null_checks(df)
        warnings == <<>>
    IN  IF rc.raised # <<>>
        THEN [passed |-> FALSE, warnings |-> rc.raised,
              logged |-> rc.logged, ran |-> <<"row_count">>,
              null_report |-> <<>>]
        ELSE IF sc.raised # <<>>
        THEN [passed |-> FALSE, warnings |-> sc.raised,
              logged |-> rc.logged \o sc.logged, ran |-> <<"row_count", "schema">>,
              null_report |-> <<>>]
        ELSE IF nc.raised # <<>>
        THEN [passed |-> FALSE, warnings |-> nc.raised,
              logged |-> rc.logged \o sc.logged \o nc.logged,
              ran |-> <<"row_count", "schema", "null_checks">>,
              null_report |-> nc.null_report]
        ELSE [passed |-> TRUE, warnings |-> warnings,
              logged |-> rc.logged \o sc.logged \o nc.logged,
              ran |-> <<"row_count", "schema", "null_checks">>,
              null_report |-> nc.null_report]

\* the value of the report before validate_data has returned
NoReport ==
    [passed |-> FALSE, warnings |-> <<>>, logged |-> <<>>, ran |-> <<>>,
     null_report |-> <<>>]

(***************************************************************************)
(* State                                                                   *)
(***************************************************************************)
VARIABLES
    caller,       \* entry point of the run: "main", "fetch_all" or "validate"
    pc,           \* position of the run
    max_records,  \* argument of fetch_all_brfss_data
    all_data,     \* fetch_all_brfss_data: accumulator
    offset,       \* fetch_all_brfss_data: next $offset
    calls,        \* $offset of every GET issued so far, in order
    received,     \* body of every GET that succeeded, in order
    fetch_failed, \* a GET raised RequestException
    data,         \* list returned by fetch_all_brfss_data
    df,           \* DataFrame under validation and load
    report,       \* what validate_data returned
    ns_exists,    \* warehouse: the BigQuery dataset (namespace) exists
    ns_location,  \* warehouse: location of the dataset, "" if it does not
                  \* exist, "preexisting" if it was there before the run
    table,        \* warehouse: <<>> no table, <<rows>> the table's rows
    prior,        \* warehouse: value of table when the run started
    job,          \* load job: "none", "running", "done" or "error"
    loader_ops,   \* client operations issued by load_to_bigquery, in order
    num_rows,     \* table.num_rows of the Table load_to_bigquery returned
    other_job,    \* load job of a second run of the script on the same table
    commits,      \* the runs whose load job committed, in commit order
    exit_code,    \* process exit status, None while running
    failure       \* why the run failed, "" if it has not

vars ==
    <<caller, pc, max_records, all_data, offset, calls, received, fetch_failed,
      data, df, report, ns_exists, ns_location, table, prior, job, loader_ops,
      num_rows, other_job, commits, exit_code, failure>>

fetchVars == <<all_data, offset, calls, received, fetch_failed, data>>

warehouseVars == <<ns_exists, ns_location, table, prior, job, loader_ops, num_rows>>

otherVars == <<other_job, commits>>

\* a destination table left by an earlier run
PriorRows == <<rNull>>

Warehouses ==
    {[ns_exists |-> FALSE, ns_location |-> "", table |-> <<>>],
     [ns_exists |-> TRUE, ns_location |-> "preexisting", table |-> <<>>],
     [ns_exists |-> TRUE, ns_location |-> "preexisting", table |-> <<PriorRows>>]}

InitCommon ==
    /\ all_data = <<>>
    /\ offset = 0
    /\ calls = <<>>
    /\ received = <<>>
    /\ fetch_failed = FALSE
    /\ data = <<>>
    /\ report = NoReport
    /\ \E w \in Warehouses :
          /\ ns_exists = w.ns_exists
          /\ ns_location = w.ns_location
          /\ table = w.table
          /\ prior = w.table
    /\ job = "none"
    /\ loader_ops = <<>>
    /\ num_rows = None
    /\ other_job = "none"
    /\ commits = <<>>
    /\ exit_code = None
    /\ failure = ""

\* python ingest.py: main() calls fetch_all_brfss_data(max_records=None)
InitMain ==
    /\ caller = "main"
    /\ pc = "fetching"
    /\ max_records = None
    /\ df = NoDataFrame
    /\ InitCommon

\* fetch_all_brfss_data(filters, max_records) called on its own
InitFetchAll ==
    /\ caller = "fetch_all"
    /\ pc = "fetching"
    /\ max_records \in {None} \cup {Some(n) : n \in 0..MaxRecordsArg}
    /\ df = NoDataFrame
    /\ InitCommon

\* validate_data(df) called on its own
InitValidate ==
    /\ caller = "validate"
    /\ pc = "validating"
    /\ max_records = None
    /\ df \in {DataFrame(d) : d \in SeqsUpTo(DatasetRecords, MaxRows)}
              \cup {HeaderOnlyFrame}
    /\ InitCommon

Init == InitMain \/ InitFetchAll \/ InitValidate

(***************************************************************************)
(* Extraction                                                              *)
(***************************************************************************)
\* Raise with an except clause that logs the error and lets main return
RaiseExitsZero(why) ==
    /\ failure' = why
    /\ IF caller = "main"
       THEN pc' = "failed" /\ exit_code' = Some(0)
       ELSE pc' = "raised" /\ exit_code' = exit_code

\* where an exception leaves the run: main's except clause calls
\* sys.exit(1) (lines 386-388), any other caller sees the exception
Raise(why) ==
    /\ failure' = why
    /\ IF caller = "main"
       THEN pc' = "failed" /\ exit_code' = Some(1)
       ELSE pc' = "raised" /\ exit_code' = exit_code

\* one loop iteration whose GET succeeds with body page (lines 101-120)
FetchPage ==
    /\ pc = "fetching"
    /\ Len(calls) < MaxFetches
    /\ \E page \in Pages :
          LET step == LoopBody(all_data, offset, page, max_records) IN
          /\ SumLen(received) + Len(page) <= MaxSourceRecords
          /\ calls' = Append(calls, offset)
          /\ received' = Append(received, page)
          /\ all_data' = step.all_data
          /\ offset' = step.offset
          /\ IF step.done
             THEN pc' = "fetched" /\ data' = step.all_data
             ELSE pc' = "fetching" /\ data' = data
    /\ UNCHANGED <<caller, otherVars, max_records, fetch_failed, df, report, warehouseVars,
                   exit_code, failure>>

\* FetchRaises with the exception swallowed: the loop breaks and the
\* records accumulated so far are returned
FetchRaisesReturnsPartial ==
    /\ pc = "fetching"
    /\ Len(calls) < MaxFetches
    /\ calls' = Append(calls, offset)
    /\ fetch_failed' = TRUE
    /\ pc' = "fetched"
    /\ data' = all_data
    /\ UNCHANGED <<caller, otherVars, max_records, all_data, offset, received, df, report,
                   warehouseVars, exit_code, failure>>

\* one loop iteration whose GET raises: fetch_brfss_data logs and re-raises
\* (lines 79-81), fetch_all_brfss_data has no handler
FetchRaises ==
    /\ pc = "fetching"
    /\ Len(calls) < MaxFetches
    /\ calls' = Append(calls, offset)
    /\ fetch_failed' = TRUE
    /\ Raise("extract_raised")
    /\ UNCHANGED <<caller, otherVars, max_records, all_data, offset, received, data, df,
                   report, warehouseVars>>

\* main after fetch_all_brfss_data returned (lines 342-349)
MainAfterExtract ==
    /\ caller = "main"
    /\ pc = "fetched"
    /\ IF data = <<>>
       THEN /\ pc' = "failed"
            /\ exit_code' = Some(1)
            /\ failure' = "no_data"
            /\ df' = df
       ELSE /\ pc' = "validating"
            /\ df' = DataFrame(data)
            /\ UNCHANGED <<exit_code, failure>>
    /\ UNCHANGED <<caller, otherVars, max_records, fetchVars, report, warehouseVars>>

(***************************************************************************)
(* Validation                                                              *)
(***************************************************************************)
\* Validate without main's test of validation_passed
ValidateIgnoringResult ==
    /\ pc = "validating"
    /\ report' = validate_data(df)
    /\ pc' = IF caller = "main" THEN "load_client" ELSE "validated"
    /\ UNCHANGED <<caller, otherVars, max_records, fetchVars, df, warehouseVars, exit_code,
                   failure>>

\* Validate with a failed validation sent back to extraction for a retry
ValidateRetriesExtraction ==
    /\ pc = "validating"
    /\ report' = validate_data(df)
    /\ pc' = IF caller # "main" THEN "validated"
             ELSE IF report'.passed THEN "load_client" ELSE "fetching"
    /\ UNCHANGED <<caller, otherVars, max_records, fetchVars, df, warehouseVars,
                   exit_code, failure>>

\* validate_data(df) and, in main, the test of its result (lines 355-359)
Validate ==
    /\ pc = "validating"
    /\ report' = validate_data(df)
    /\ IF caller = "main"
       THEN IF report'.passed
            THEN pc' = "load_client" /\ UNCHANGED <<exit_code, failure>>
            ELSE /\ pc' = "failed"
                 /\ exit_code' = Some(1)
                 /\ failure' = "validation_failed"
       ELSE pc' = "validated" /\ UNCHANGED <<exit_code, failure>>
    /\ UNCHANGED <<caller, otherVars, max_records, fetchVars, df, warehouseVars>>

(***************************************************************************)
(* Load (load_to_bigquery, lines 276-316).  Every client call is a step    *)
(* that either returns or raises; the load job runs in the warehouse and   *)
(* replaces the table's rows in one step when it commits (WRITE_TRUNCATE). *)
(***************************************************************************)
\* the credentials are read and bigquery.Client is built (lines 277-284)
LoadClient ==
    /\ pc = "load_client"
    /\ loader_ops' = Append(loader_ops, "client")
    /\ \/ pc' = "load_get_dataset" /\ UNCHANGED <<exit_code, failure>>
       \/ Raise("client_raised")
    /\ UNCHANGED <<caller, otherVars, max_records, fetchVars, df, report, ns_exists, ns_location, table,
                   prior, job, num_rows>>

\* client.get_dataset (lines 288-291): returns only if the dataset exists;
\* any exception, NotFound or not, leads to the except branch
LoadGetDataset ==
    /\ pc = "load_get_dataset"
    /\ loader_ops' = Append(loader_ops, "get_dataset")
    /\ \/ ns_exists /\ pc' = "load_write"
       \/ pc' = "load_create_dataset"
    /\ UNCHANGED <<caller, otherVars, max_records, fetchVars, df, report, ns_exists, ns_location, table,
                   prior, job, num_rows, exit_code, failure>>

\* LoadCreateDataset with the exception of create_dataset swallowed: the
\* load goes on to the write
LoadCreateDatasetSwallows ==
    /\ pc = "load_create_dataset"
    /\ loader_ops' = Append(loader_ops, "create_dataset")
    /\ pc' = "load_write"
    /\ \/ ~ns_exists /\ ns_exists' = TRUE /\ ns_location' = "US"
       \/ UNCHANGED <<ns_exists, ns_location>>
    /\ UNCHANGED <<caller, otherVars, max_records, fetchVars, df, report, table,
                   prior, job, num_rows, exit_code, failure>>

\* client.create_dataset in the except branch (lines 292-295), with
\* dataset.location = "US": Conflict if the dataset exists, otherwise it is
\* created or the call raises
LoadCreateDataset ==
    /\ pc = "load_create_dataset"
    /\ loader_ops' = Append(loader_ops, "create_dataset")
    /\ \/ /\ ~ns_exists
          /\ ns_exists' = TRUE
          /\ ns_location' = "US"
          /\ pc' = "load_write"
          /\ UNCHANGED <<exit_code, failure>>
       \/ /\ UNCHANGED <<ns_exists, ns_location>>
          /\ Raise("create_dataset_raised")
    /\ UNCHANGED <<caller, otherVars, max_records, fetchVars, df, report, table, prior, job,
                   num_rows>>

\* client.load_table_from_dataframe (line 309): the job is started or the
\* call raises with no job started
LoadWrite ==
    /\ pc = "load_write"
    /\ loader_ops' = Append(loader_ops, "load_table_from_dataframe")
    /\ \/ job' = "running" /\ pc' = "load_wait" /\ UNCHANGED <<exit_code, failure>>
       \/ job' = job /\ Raise("load_table_raised")
    /\ UNCHANGED <<caller, otherVars, max_records, fetchVars, df, report, ns_exists, ns_location, table,
                   prior, num_rows>>

\* rows of the table, the empty sequence if there is no table
RowsOf(t) == IF t = <<>> THEN <<>> ELSE t[1]

\* JobCommits with the rows appended to the table (WRITE_APPEND)
JobCommitsAppends ==
    /\ job = "running"
    /\ job' = "done"
    /\ table' = <<RowsOf(table) \o df.rows>>
    /\ commits' = Append(commits, "run")
    /\ UNCHANGED <<caller, other_job, pc, max_records, fetchVars, df, report,
                   ns_exists, ns_location, prior, loader_ops, num_rows, exit_code,
                   failure>>

\* warehouse: the running job commits, the table now holds exactly df's rows
\* (WRITE_TRUNCATE, lines 301-304)
JobCommits ==
    /\ job = "running"
    /\ job' = "done"
    /\ table' = <<df.rows>>
    /\ commits' = Append(commits, "run")
    /\ UNCHANGED <<caller, other_job, pc, max_records, fetchVars, df, report,
                   ns_exists, ns_location, prior, loader_ops, num_rows, exit_code,
                   failure>>

\* warehouse: the running job fails, the table is not touched
JobFails ==
    /\ job = "running"
    /\ job' = "error"
    /\ UNCHANGED <<caller, otherVars, pc, max_records, fetchVars, df, report, ns_exists, ns_location,
                   table, prior, loader_ops, num_rows, exit_code, failure>>

\* LoadWait without blocking: the read-back follows a job still running
LoadWaitNoBlock ==
    /\ pc = "load_wait"
    /\ loader_ops' = Append(loader_ops, "result")
    /\ \/ job \in {"running", "done"} /\ pc' = "load_readback"
                                       /\ UNCHANGED <<exit_code, failure>>
       \/ job = "error" /\ Raise("job_failed")
    /\ UNCHANGED <<caller, otherVars, max_records, fetchVars, df, report, ns_exists, ns_location, table,
                   prior, job, num_rows>>

\* job.result() (line 310): returns once the job is done; raises if the job
\* failed or if polling the job fails
LoadWait ==
    /\ pc = "load_wait"
    /\ loader_ops' = Append(loader_ops, "result")
    /\ \/ job = "done" /\ pc' = "load_readback" /\ UNCHANGED <<exit_code, failure>>
       \/ job = "error" /\ Raise("job_failed")
       \/ job \in {"running", "done"} /\ Raise("result_raised")
    /\ UNCHANGED <<caller, otherVars, max_records, fetchVars, df, report, ns_exists, ns_location, table,
                   prior, job, num_rows>>

\* client.get_table (line 312) and the return of the Table (line 316)
LoadReadback ==
    /\ pc = "load_readback"
    /\ loader_ops' = Append(loader_ops, "get_table")
    /\ \/ /\ table # <<>>
          /\ num_rows' = Some(Len(table[1]))
          /\ pc' = "summary"
          /\ UNCHANGED <<exit_code, failure>>
       \/ /\ num_rows' = num_rows
          /\ Raise("get_table_raised")
    /\ UNCHANGED <<caller, otherVars, max_records, fetchVars, df, report, ns_exists, ns_location, table,
                   prior, job>>

\* main logs the summary and returns (lines 373-384): exit status 0
MainSummary ==
    /\ pc = "summary"
    /\ pc' = "done"
    /\ exit_code' = Some(0)
    /\ UNCHANGED <<caller, otherVars, max_records, fetchVars, df, report, warehouseVars,
                   failure>>

(***************************************************************************)
(* A second run of the script on the same destination table.  Of its       *)
(* load_to_bigquery only what touches the warehouse is followed: the       *)
(* dataset it ensures, the load job it starts and that job's commit.       *)
(***************************************************************************)
\* the validated DataFrame rows the second run loads
OtherRows == <<rNull, rNull>>

\* second run: dataset ensured and load_table_from_dataframe (lines 288-309)
OtherRunWrite ==
    /\ caller = "main"
    /\ other_job = "none"
    /\ other_job' = "running"
    /\ ns_exists' = TRUE
    /\ ns_location' = IF ns_exists THEN ns_location ELSE "US"
    /\ UNCHANGED <<caller, commits, pc, max_records, fetchVars, df, report, table,
                   prior, job, loader_ops, num_rows, exit_code, failure>>

\* warehouse: the second run's job commits (WRITE_TRUNCATE)
OtherJobCommits ==
    /\ other_job = "running"
    /\ other_job' = "done"
    /\ table' = <<OtherRows>>
    /\ commits' = Append(commits, "other")
    /\ UNCHANGED <<caller, pc, max_records, fetchVars, df, report, ns_exists,
                   ns_location, prior, job, loader_ops, num_rows, exit_code,
                   failure>>

Next ==
    \/ FetchPage
    \/ FetchRaises
    \/ MainAfterExtract
    \/ Validate
    \/ LoadClient
    \/ LoadGetDataset
    \/ LoadCreateDataset
    \/ LoadWrite
    \/ JobCommits
    \/ JobFails
    \/ LoadWait
    \/ LoadReadback
    \/ MainSummary

Spec == Init /\ [][Next]_vars

\* two runs of the script against the same destination table
NextConcurrent ==
    \/ Next
    \/ OtherRunWrite
    \/ OtherJobCommits

SpecConcurrent == Init /\ [][NextConcurrent]_vars

(***************************************************************************)
(* Properties                                                              *)
(***************************************************************************)
Last(seq) == seq[Len(seq)]

\* the run is inside or past load_to_bigquery
LoadInvoked == loader_ops # <<>> \/ pc \in {"load_client", "load_get_dataset",
    "load_create_dataset", "load_write", "load_wait", "load_readback", "summary", "done"}

\* validate_data has returned
Validated == report.ran # <<>>

\* every page before the last is exactly limit long, the last one is shorter
EndsInShortPage ==
    /\ received # <<>>
    /\ \A i \in 1..(Len(received) - 1) : Len(received[i]) = limit
    /\ Len(Last(received)) < limit

\* C1: with max_records unset, once the pages received are full pages
\* followed by one short (possibly empty) page, fetch_all_brfss_data has
\* returned, no further GET was issued, and the list returned is the
\* concatenation of the pages in arrival order, its length the sum of the
\* page sizes.
C1_ShortPageEndsWithAllRecords ==
    (max_records = None /\ EndsInShortPage) =>
        /\ pc # "fetching"
        /\ ~fetch_failed
        /\ Len(calls) = Len(received)
        /\ data = Flatten(received)
        /\ Len(data) = SumLen(received)

C1_Witness ==
    /\ max_records = None
    /\ EndsInShortPage
    /\ Len(received) >= 2
    /\ Last(received) # <<>>
    /\ pc = "fetched"

\* C2: for every non-negative integer max_records the list returned has at
\* most max_records records, and exactly max_records unless the last page
\* received was empty or short.
C2_NeverMoreThanMaxRecords ==
    (caller = "fetch_all" /\ max_records # None /\ pc = "fetched") =>
        /\ Len(data) <= max_records[1]
        /\ \/ Len(data) = max_records[1]
           \/ Len(Last(received)) < limit

\* The same statement restricted to max_records >= 1 (holds).
C2_PositiveMaxRecords ==
    (caller = "fetch_all" /\ max_records # None /\ pc = "fetched"
        /\ max_records[1] >= 1) =>
        /\ Len(data) <= max_records[1]
        /\ \/ Len(data) = max_records[1]
           \/ Len(Last(received)) < limit

\* C3: load_to_bigquery is entered only with a non-empty extraction whose
\* DataFrame validate_data passed; a run that failed in extraction, on an
\* empty extraction or in validation issued no loader operation, started no
\* job and left the destination as it was.
C3_LoadOnlyAfterGate ==
    /\ LoadInvoked =>
          /\ caller = "main"
          /\ ~fetch_failed
          /\ data # <<>>
          /\ df = DataFrame(data)
          /\ Validated
          /\ report.passed
          /\ RowCount(df) >= MIN_ROW_COUNT
    /\ failure \in {"extract_raised", "no_data", "validation_failed"} =>
          /\ loader_ops = <<>>
          /\ job = "none"
          /\ table = prior

C3_Witness ==
    /\ LoadInvoked
    /\ "load_table_from_dataframe" \in {loader_ops[i] : i \in DOMAIN loader_ops}
    /\ report.logged # <<>>

\* C4: the exit status is 0 exactly when extraction returned records,
\* validation passed and every loader step returned; every failure at any
\* stage ends main with status 1.
C4_ExitStatus ==
    caller = "main" =>
        /\ exit_code \in {None, Some(0), Some(1)}
        /\ (exit_code = Some(0)) = (pc = "done")
        /\ (exit_code = Some(1)) = (pc = "failed")
        /\ (failure # "") = (pc = "failed")
        /\ pc = "done" =>
              /\ ~fetch_failed
              /\ data # <<>>
              /\ report.passed
              /\ job = "done"
              /\ num_rows # None
              /\ loader_ops \in
                    {<<"client", "get_dataset", "load_table_from_dataframe",
                       "result", "get_table">>,
                     <<"client", "get_dataset", "create_dataset",
                       "load_table_from_dataframe", "result", "get_table">>}
        /\ (pc \in {"done", "failed"}
              /\ (fetch_failed \/ data = <<>> \/ ~report.passed
                     \/ job # "done" \/ num_rows = None)) =>
              exit_code = Some(1)

C4_Witness ==
    /\ caller = "main"
    /\ exit_code = Some(1)
    /\ failure = "job_failed"

C6_MissingColumnsWarningReturned ==
    (Validated /\ RowCount(df) >= MIN_ROW_COUNT /\ df.columns # {}
        /\ missing_columns(df) # {}) =>
        /\ report.passed
        /\ \E i \in DOMAIN report.warnings :
              /\ report.warnings[i].kind = "missing_columns"
              /\ report.warnings[i].columns = missing_columns(df)

\* What the code does there instead (holds): passed = true, the warning with
\* exactly the missing columns is logged, and the returned list is empty.
C6_MissingColumnsWarningLoggedOnly ==
    (Validated /\ RowCount(df) >= MIN_ROW_COUNT /\ df.columns # {}
        /\ missing_columns(df) # {}) =>
        /\ report.passed
        /\ report.warnings = <<>>
        /\ \E i \in DOMAIN report.logged :
              /\ report.logged[i].kind = "missing_columns"
              /\ report.logged[i].columns = missing_columns(df)

\* C7: for a dataset that passes the row-count and column checks, the report
\* validate_data returns passes and its warnings name exactly the columns
\* whose null percentage is strictly above MAX_NULL_PERCENTAGE (a column at
\* exactly the limit is not named).
C7_HighNullWarningReturned ==
    (Validated /\ RowCount(df) >= MIN_ROW_COUNT /\ df.columns # {}) =>
        /\ report.passed
        /\ \A c \in df.columns :
              (NullCount(df, c) * 100 > MAX_NULL_PERCENTAGE * RowCount(df)) =
              (\E i \in DOMAIN report.warnings :
                  /\ report.warnings[i].kind = "high_nulls"
                  /\ c \in report.warnings[i].columns)

\* What the code does there instead (holds): the columns above the limit are
\* named in a logged warning only, validation passes and main goes on to load.
C7_HighNullWarningLoggedOnly ==
    (Validated /\ RowCount(df) >= MIN_ROW_COUNT /\ df.columns # {}) =>
        /\ report.passed
        /\ report.warnings = <<>>
        /\ caller = "main" => LoadInvoked
        /\ \A c \in df.columns :
              (NullCount(df, c) * 100 > MAX_NULL_PERCENTAGE * RowCount(df)) =
              (\E i \in DOMAIN report.logged :
                  /\ report.logged[i].kind = "high_nulls"
                  /\ c \in report.logged[i].columns)

\* C8: once a GET has raised, on the first page or a later one, nothing is
\* returned by fetch_all_brfss_data, the exception reaches the caller (main
\* ends FAILED with status 1), no DataFrame is built, validated or loaded,
\* and the failed GET was the last one issued.
C8_FetchErrorPropagates ==
    fetch_failed =>
        /\ pc = IF caller = "main" THEN "failed" ELSE "raised"
        /\ caller = "main" => exit_code = Some(1)
        /\ failure = "extract_raised"
        /\ data = <<>>
        /\ df = NoDataFrame
        /\ ~Validated
        /\ ~LoadInvoked
        /\ table = prior
        /\ Len(calls) = Len(received) + 1
        /\ \A i, j \in DOMAIN calls : i < j => calls[i] < calls[j]

C8_Witness ==
    /\ fetch_failed
    /\ caller = "main"
    /\ all_data # <<>>
    /\ Len(calls) >= 2

\* C9: at the end of every run that reached the loader, either it reports
\* success and the table holds exactly the new dataset, or it reports failure
\* (status 1) and the table holds exactly its prior contents.
C9_NoPartialSuccess ==
    (caller = "main" /\ LoadInvoked /\ pc \in {"done", "failed"}) =>
        \/ pc = "done" /\ exit_code = Some(0) /\ table = <<df.rows>>
        \/ pc = "failed" /\ exit_code = Some(1) /\ table = prior

\* What holds instead: a run that reports success leaves exactly the new
\* dataset; a run that failed before its job was started leaves the table as
\* it was.
C9_SuccessOrFailedBeforeWrite ==
    (caller = "main" /\ LoadInvoked /\ pc \in {"done", "failed"}) =>
        /\ pc = "done" => exit_code = Some(0) /\ table = <<df.rows>>
        /\ (pc = "failed" /\ job \in {"none", "error"}) =>
              exit_code = Some(1) /\ table = prior

\* C10: get_table is issued only after job.result() returned with the job
\* done, and the row count of the returned Table is the count read back from
\* the destination, which equals the row count of the dataset loaded.
C10_ReadBackAfterCommit ==
    /\ (pc \in {"load_readback", "summary", "done"}
           \/ "get_table" \in {loader_ops[i] : i \in DOMAIN loader_ops}) =>
          /\ job = "done"
          /\ table = <<df.rows>>
          /\ \E i \in DOMAIN loader_ops :
                /\ loader_ops[i] = "result"
                /\ \A j \in DOMAIN loader_ops :
                      loader_ops[j] = "get_table" => j = i + 1
    /\ num_rows # None =>
          /\ num_rows = Some(Len(table[1]))
          /\ num_rows = Some(RowCount(df))

C10_Witness ==
    /\ num_rows # None
    /\ prior # <<>>
    /\ num_rows[1] > Len(prior[1])

\* positions of a client operation in loader_ops
OpPositions(op) == {i \in DOMAIN loader_ops : loader_ops[i] = op}

\* C11: the write directly follows either the probe get_dataset (it
\* succeeded, no creation is attempted) or a create_dataset that succeeded;
\* create_dataset is attempted at most once, only directly after the probe,
\* always follows a probe that raised, and creates the dataset in location
\* US; a create_dataset that raises ends the load with no write, no job and
\* the table untouched.
C11_NamespaceEnsure ==
    /\ Cardinality(OpPositions("get_dataset")) <= 1
    /\ Cardinality(OpPositions("create_dataset")) <= 1
    /\ \A i \in OpPositions("get_dataset") :
          /\ i = 2
          /\ i < Len(loader_ops) =>
                loader_ops[i + 1] \in {"create_dataset", "load_table_from_dataframe"}
          /\ i = Len(loader_ops) => pc \in {"load_write", "load_create_dataset"}
    /\ pc = "load_create_dataset" => Last(loader_ops) = "get_dataset"
    /\ \A i \in OpPositions("create_dataset") : loader_ops[i - 1] = "get_dataset"
    /\ \A i \in OpPositions("load_table_from_dataframe") :
          /\ loader_ops[i - 1] \in {"get_dataset", "create_dataset"}
          /\ ns_exists
          /\ loader_ops[i - 1] = "create_dataset" =>
                ns_location = "US" /\ prior = <<>>
          /\ loader_ops[i - 1] = "get_dataset" => ns_location = "preexisting"
    /\ pc = "load_write" => ns_exists
    /\ failure = "create_dataset_raised" =>
          /\ pc = "failed"
          /\ Last(loader_ops) = "create_dataset"
          /\ OpPositions("load_table_from_dataframe") = {}
          /\ job = "none"
          /\ table = prior

C11_Witness ==
    /\ OpPositions("create_dataset") # {}
    /\ OpPositions("load_table_from_dataframe") # {}
    /\ ns_location = "US"

\* the record cap is set and the records received reach it
CapReached == Truthy(max_records) /\ SumLen(received) >= max_records[1]

\* C12: a GET is issued at offset 0 and then only after a page that was not
\* empty, did not reach the record cap and was not short, each time at the
\* previous offset plus limit; when the loop has stopped, the cap is applied
\* before the short-page test (a short page that reaches the cap is
\* truncated); two full pages and a short page of k records yield
\* 2 * limit + k records after exactly 3 GETs.
C12_StopOrderAndOffsets ==
    /\ \A i \in DOMAIN calls : calls[i] = (i - 1) * limit
    /\ Len(received) <= Len(calls)
    /\ Len(calls) <= Len(received) + 1
    /\ pc = "fetching" => offset = Len(calls) * limit
    /\ \A i \in DOMAIN received :
          (i < Len(calls)) =>
              /\ received[i] # <<>>
              /\ Len(received[i]) >= limit
              /\ ~(Truthy(max_records)
                     /\ SumLen(SubSeq(received, 1, i)) >= max_records[1])
    /\ (pc = "fetched" /\ caller = "fetch_all") =>
          data = IF CapReached /\ Last(received) # <<>>
                 THEN SubSeq(Flatten(received), 1, max_records[1])
                 ELSE Flatten(received)
    /\ (max_records = None /\ Len(received) = 3
          /\ Len(received[1]) = limit /\ Len(received[2]) = limit
          /\ Len(received[3]) < limit) =>
          /\ pc # "fetching"
          /\ Len(calls) = 3
          /\ Len(data) = 2 * limit + Len(received[3])

C12_Witness ==
    /\ max_records = None
    /\ pc = "fetched"
    /\ calls = <<0, limit, 2 * limit>>
    /\ Len(received[3]) < limit
    /\ received[3] # <<>>
    /\ Len(data) = 2 * limit + Len(received[3])

AllChecks == <<"row_count", "schema", "null_checks">>

\* C13 as stated: the checks run in the order row count, schema, null
\* density, and whenever the row-count check passes both the schema check
\* and the null-density check run.
C13_OnlyRowCountStops ==
    Validated =>
        /\ \E n \in 1..3 : report.ran = SubSeq(AllChecks, 1, n)
        /\ RowCount(df) >= MIN_ROW_COUNT => report.ran = AllChecks

\* C13 amended: the checks run in the order row count, schema, null density;
\* a row-count failure stops both later checks and a dataset without columns
\* stops the null-density check; with the row count passed and at least one
\* column, all three checks run.
C13_RowCountOrNoColumnsStops ==
    Validated =>
        /\ report.ran =
              IF RowCount(df) < MIN_ROW_COUNT THEN <<"row_count">>
              ELSE IF df.columns = {} THEN <<"row_count", "schema">>
              ELSE AllChecks
        /\ RowCount(df) < MIN_ROW_COUNT => report.logged = <<>>
        /\ report.ran # AllChecks => report.null_report = <<>> /\ ~report.passed

C13_Witness ==
    /\ Validated
    /\ RowCount(df) >= MIN_ROW_COUNT
    /\ df.columns = {}
    /\ report.ran = <<"row_count", "schema">>

\* C16: the null report has exactly one row per column of the dataset, each
\* null count lies between 0 and the row count, and the rows are in
\* non-increasing order of null percentage.
C16_NullReportSorted ==
    (Validated /\ report.ran = AllChecks) =>
        LET rep == report.null_report IN
        /\ Len(rep) = Cardinality(df.columns)
        /\ {rep[i].column : i \in DOMAIN rep} = df.columns
        /\ \A i \in DOMAIN rep :
              /\ rep[i].null_count >= 0
              /\ rep[i].null_count <= RowCount(df)
        /\ \A i, j \in DOMAIN rep :
              i < j => rep[i].null_percentage >= rep[j].null_percentage

C16_Witness ==
    /\ Validated
    /\ report.ran = AllChecks
    /\ Len(report.null_report) >= 2
    /\ report.null_report[1].column = "data_value"
    /\ report.null_report[1].null_percentage
          > report.null_report[Len(report.null_report)].null_percentage
    /\ report.null_report[1].null_percentage < 10000

\* C17: the null-density check runs only on a dataset with at least
\* MIN_ROW_COUNT rows, hence at least one row: no percentage in a report is
\* the result of a division by zero, a dataset without rows is stopped by
\* the row-count check, and main validates only non-empty datasets.
C17_NullCheckNeverDividesByZero ==
    /\ MIN_ROW_COUNT >= 1
    /\ (Validated /\ \E i \in DOMAIN report.ran : report.ran[i] = "null_checks") =>
          /\ RowCount(df) >= MIN_ROW_COUNT
          /\ RowCount(df) >= 1
          /\ \A i \in DOMAIN report.null_report :
                report.null_report[i].null_percentage # NaN
    /\ (Validated /\ RowCount(df) = 0) =>
          /\ report.ran = <<"row_count">>
          /\ ~report.passed
    /\ (caller = "main" /\ (pc = "validating" \/ Validated)) => RowCount(df) >= 1

C17_Witness ==
    /\ Validated
    /\ df = HeaderOnlyFrame
    /\ report.ran = <<"row_count">>

\* the driver's stage at a position of main
Stage(p) ==
    IF p \in {"fetching", "fetched"} THEN "EXTRACTING"
    ELSE IF p = "validating" THEN "VALIDATING"
    ELSE IF p \in {"load_client", "load_get_dataset", "load_create_dataset",
                   "load_write", "load_wait", "load_readback", "summary"}
         THEN "LOADING"
    ELSE IF p = "done" THEN "DONE"
    ELSE "FAILED"

StageMoves ==
    {<<"EXTRACTING", "EXTRACTING">>, <<"EXTRACTING", "VALIDATING">>,
     <<"EXTRACTING", "FAILED">>,
     <<"VALIDATING", "LOADING">>, <<"VALIDATING", "FAILED">>,
     <<"LOADING", "LOADING">>, <<"LOADING", "DONE">>, <<"LOADING", "FAILED">>,
     <<"DONE", "DONE">>, <<"FAILED", "FAILED">>}

\* the model stopped following the run at its bound on page fetches
FetchBoundReached == pc = "fetching" /\ Len(calls) >= MaxFetches

\* how far main has come: statements only ever move it forward
PcRank(p) ==
    CASE p = "fetching" -> 0
      [] p = "fetched" -> 1
      [] p = "validating" -> 2
      [] p = "load_client" -> 3
      [] p = "load_get_dataset" -> 4
      [] p = "load_create_dataset" -> 5
      [] p = "load_write" -> 6
      [] p = "load_wait" -> 7
      [] p = "load_readback" -> 8
      [] p = "summary" -> 9
      [] OTHER -> 10

\* main has a statement it can take at its position (validate_data has no
\* precondition besides the position)
NextStatementEnabled ==
    \/ ENABLED FetchPage
    \/ ENABLED FetchRaises
    \/ ENABLED MainAfterExtract
    \/ pc = "validating"
    \/ ENABLED LoadClient
    \/ ENABLED LoadGetDataset
    \/ ENABLED LoadCreateDataset
    \/ ENABLED LoadWrite
    \/ ENABLED LoadWait
    \/ ENABLED LoadReadback
    \/ ENABLED MainSummary

C15_LastWriterWins ==
    /\ commits # <<>> =>
          table = <<IF Last(commits) = "run" THEN df.rows ELSE OtherRows>>
    /\ (job = "done" /\ other_job = "done") =>
          /\ Len(commits) = 2
          /\ commits[1] # commits[2]
          /\ RowsOf(table) \in {df.rows, OtherRows}
    /\ (caller = "main" /\ job = "running" /\ other_job = "none") =>
          ENABLED OtherRunWrite
    /\ (pc = "load_write" /\ other_job = "running") => ENABLED LoadWrite

C15_Witness ==
    /\ job = "done"
    /\ other_job = "done"
    /\ commits = <<"other", "run">>
    /\ table = <<df.rows>>
    /\ df.rows # OtherRows

\* the source kept to the requested page size in every response so far
SourceRespectsLimit == \A i \in 1..Len(received) : Len(received[i]) <= limit

\* C18: provided no response held more than limit records, every fetch was
\* issued at the offset equal to the number of records accumulated before
\* it, the next fetch will be issued at the number accumulated now, and
\* each requested range starts where the records of the previous response
\* ended, so no source position is requested twice or skipped.
C18_OffsetEqualsAccumulated ==
    SourceRespectsLimit =>
        /\ \A i \in 1..Len(calls) :
              calls[i] = SumLen(SubSeq(received, 1, i - 1))
        /\ \A i \in 1..(Len(calls) - 1) :
              calls[i + 1] = calls[i] + Len(received[i])
        /\ pc = "fetching" => offset = Len(all_data) /\ offset = SumLen(received)

C18_Witness ==
    /\ SourceRespectsLimit
    /\ Len(calls) = 3
    /\ calls[3] = Len(received[1]) + Len(received[2])
    /\ Len(received[3]) > 0
    /\ pc = "fetched"

\* ceil(a / b) for a >= 0, b > 0
CeilDiv(a, b) == (a + b - 1) \div b

\* every response so far was a full page
OnlyFullPages == \A i \in 1..Len(received) : Len(received[i]) >= limit

\* C19: with a positive max_records the loop issues at most
\* ceil(max_records / limit) fetches, full pages or not, and is past the
\* loop once that many were issued; with max_records unset the loop is still
\* running after any number of full pages without an error, and it ends
\* only on an empty page, a short page or a failed fetch.
C19_FetchCountBounded ==
    /\ (max_records # None /\ max_records[1] > 0) =>
          /\ Len(calls) <= CeilDiv(max_records[1], limit)
          /\ Len(calls) = CeilDiv(max_records[1], limit) => pc # "fetching"
          /\ pc = "fetching" => Len(all_data) < max_records[1]
    /\ (caller # "validate" /\ max_records = None) =>
          /\ (OnlyFullPages /\ ~fetch_failed) => pc = "fetching"
          /\ pc # "fetching" =>
                \/ fetch_failed
                \/ /\ received # <<>>
                   /\ Len(Last(received)) < limit

C19_Witness ==
    /\ max_records # None
    /\ max_records[1] > limit
    /\ Len(calls) = CeilDiv(max_records[1], limit)
    /\ Len(calls) = 2
    /\ OnlyFullPages
    /\ ~fetch_failed
    /\ pc = "fetched"
    /\ Len(all_data) = max_records[1]

====
